---- MODULE Spec2Model ----
(***************************************************************************)
(* Model of package termfields (src/termfields.go): form fields drawn at   *)
(* fixed cell coordinates through the termbox cell backend.                *)
(*                                                                         *)
(* A string is a sequence of runes (code points).  `range s` in Go yields  *)
(* the BYTE index of each rune, so the UTF-8 length of a rune is modelled. *)
(* The backend is a back buffer (SetCell), a front buffer (Flush) and the  *)
(* IsInit flag; writes outside the buffer are dropped by the backend.      *)
(***************************************************************************)
EXTENDS Integers, Sequences, FiniteSets, TLC

\* ---------------------------------------------------------------- bounds
MaxOps == 4
MaxWidth == 1
GridW == 6
GridH == 6

\* ------------------------------------------------------ program constants
boxStyleClear == 0
BoxStyleNone == 1
BoxStyleASCII == 2
BoxStyleUnicode == 3

FieldShiftLeft == 0
FieldShiftRight == 1
FieldShiftUp == 2
FieldShiftDown == 3

boxRunesMap ==
    (boxStyleClear :> <<32, 32, 32, 32, 32, 32>>) @@
    (BoxStyleNone :> <<0, 0, 0, 0, 0, 0>>) @@
    (BoxStyleASCII :> <<43, 43, 43, 43, 45, 124>>) @@
    (BoxStyleUnicode :> <<9484, 9488, 9492, 9496, 9472, 9474>>)

ErrNotInitialized == "Term not Initialized"
ErrUnknownBoxStyle == "Unknown Box Style"
Nil == "nil"
NoReturn == "no return value"

\* ------------------------------------------------------------ input sets
Blank == 32
Rows == {1, 4}
NewRows == {1}
NewCols == {1}
Cols == {1, 2}
Widths == 0..MaxWidth
\* "", "a", "ab", "\u00e9b" (the rune 233 takes two bytes in UTF-8)
Texts == {<< >>, <<97>>, <<97, 98>>, <<233, 98>>}
Styles == 0..4
Dirs == 0..4

NoField == [none |-> TRUE]

\* ------------------------------------------------------- pure functions
Max(S) == CHOOSE m \in S : \A n \in S : n <= m

Abs(n) == IF n < 0 THEN 0 - n ELSE n

\* number of bytes of the UTF-8 encoding of rune r
RuneLen(r) ==
    IF r < 128 THEN 1 ELSE IF r < 2048 THEN 2 ELSE IF r < 65536 THEN 3 ELSE 4

RECURSIVE ByteIndex(_, _)
\* index `i` that `for i, c := range s` yields for the k-th rune (k from 1)
ByteIndex(s, k) ==
    IF k = 1 THEN 0 ELSE ByteIndex(s, k - 1) + RuneLen(s[k - 1])

\* fmt.Sprintf("%*s", n, " "): one space padded to a minimum width of |n|
Sprintf(n) == [i \in 1..Max({Abs(n), 1}) |-> Blank]

\* ------------------------------------------------------------- backend
Cells == (0..(GridW - 1)) \X (0..(GridH - 1))

ClearGrid == [c \in Cells |-> Blank]

SetCellCall(x, y, r) == [call |-> "SetCell", x |-> x, y |-> y, r |-> r]

FlushCall == [call |-> "Flush", x |-> 0, y |-> 0, r |-> 0]

\* tb.SetCell for each element of ws, in order
SetCells(st, ws) ==
    [st EXCEPT
       !.back = [c \in Cells |->
                   LET hits == {i \in 1..Len(ws) : <<ws[i].x, ws[i].y>> = c}
                   IN  IF hits = {} THEN st.back[c] ELSE ws[Max(hits)].r],
       !.calls = @ \o ws]

\* tb.Flush
Flush(st) == [st EXCEPT !.front = st.back, !.calls = Append(@, FlushCall)]

\* ---------------------------------------------------------- field methods
Row(f) == f.y

Column(f) == f.x

\* the SetCell calls of the loop of Update, in order
UpdateWrites(f, s) ==
    [k \in 1..Len(s) |-> SetCellCall(f.x + ByteIndex(s, k), f.y, s[k])]

\* Update storing the text before the IsInit guard
Update_StoresBeforeGuard(st, s) ==
    IF ~st.init
    THEN [st EXCEPT !.f.text = s, !.err = ErrNotInitialized]
    ELSE LET drawn == Flush(SetCells(st, UpdateWrites(st.f, s)))
         IN  [drawn EXCEPT !.f.text = s, !.err = Nil]

Update(st, s) ==
    IF ~st.init
    THEN [st EXCEPT !.err = ErrNotInitialized]
    ELSE LET drawn == Flush(SetCells(st, UpdateWrites(st.f, s)))
         IN  [drawn EXCEPT !.f.text = s, !.err = Nil]

\* BoxWrites with the edge loop running to i < f.len instead of i < f.len+1
BoxWrites_ShortEdges(f, g) ==
    << SetCellCall(f.x - 1, f.y - 1, g[1]),
       SetCellCall(f.x + f.len + 1, f.y - 1, g[2]),
       SetCellCall(f.x - 1, f.y + 1, g[3]),
       SetCellCall(f.x + f.len + 1, f.y + 1, g[4]),
       SetCellCall(f.x - 1, f.y, g[6]),
       SetCellCall(f.x + f.len + 1, f.y, g[6]) >>
    \o [j \in 1..(2 * Max({f.len, 0})) |->
          IF j % 2 = 1
          THEN SetCellCall(f.x + ((j - 1) \div 2), f.y - 1, g[5])
          ELSE SetCellCall(f.x + ((j - 1) \div 2), f.y + 1, g[5])]

\* the SetCell calls of DrawBox, in order: corners, sides, top and bottom
BoxWrites(f, g) ==
    << SetCellCall(f.x - 1, f.y - 1, g[1]),
       SetCellCall(f.x + f.len + 1, f.y - 1, g[2]),
       SetCellCall(f.x - 1, f.y + 1, g[3]),
       SetCellCall(f.x + f.len + 1, f.y + 1, g[4]),
       SetCellCall(f.x - 1, f.y, g[6]),
       SetCellCall(f.x + f.len + 1, f.y, g[6]) >>
    \o [j \in 1..(2 * Max({f.len + 1, 0})) |->
          IF j % 2 = 1
          THEN SetCellCall(f.x + ((j - 1) \div 2), f.y - 1, g[5])
          ELSE SetCellCall(f.x + ((j - 1) \div 2), f.y + 1, g[5])]

\* DrawBox storing the style before looking it up in boxRunesMap
DrawBox_StoresBeforeLookup(st, boxType) ==
    IF ~st.init
    THEN [st EXCEPT !.err = ErrNotInitialized]
    ELSE IF boxType \notin DOMAIN boxRunesMap
    THEN [st EXCEPT !.f.border = boxType, !.err = ErrUnknownBoxStyle]
    ELSE LET drawn == Flush(SetCells(st, BoxWrites(st.f, boxRunesMap[boxType])))
         IN  [drawn EXCEPT !.f.border = boxType, !.err = Nil]

DrawBox(st, boxType) ==
    IF ~st.init
    THEN [st EXCEPT !.err = ErrNotInitialized]
    ELSE IF boxType \notin DOMAIN boxRunesMap
    THEN [st EXCEPT !.err = ErrUnknownBoxStyle]
    ELSE LET drawn == Flush(SetCells(st, BoxWrites(st.f, boxRunesMap[boxType])))
         IN  [drawn EXCEPT !.f.border = boxType, !.err = Nil]

\* Loc redrawing with f.border as it is after the Clear draw
Loc_RedrawsCurrentBorder(st, y, x) ==
    LET s1 == Update(st, Sprintf(st.f.len))
        s2 == DrawBox(s1, boxStyleClear)
        s3 == [s2 EXCEPT !.f.x = x, !.f.y = y]
        s4 == DrawBox(s3, s3.f.border)
        s5 == Update(s4, s4.f.text)
    IN  [s5 EXCEPT !.err = NoReturn]

Loc(st, y, x) ==
    LET border == st.f.border
        s1 == Update(st, Sprintf(st.f.len))
        s2 == DrawBox(s1, boxStyleClear)
        s3 == [s2 EXCEPT !.f.x = x, !.f.y = y]
        s4 == DrawBox(s3, border)
        s5 == Update(s4, s4.f.text)
    IN  [s5 EXCEPT !.err = NoReturn]

\* Shift with the FieldShiftDown case decrementing y like FieldShiftUp
Shift_DownDecrements(st, dir) ==
    LET border == st.f.border
        s1 == DrawBox(st, boxStyleClear)
        s2 == CASE dir = FieldShiftLeft -> [s1 EXCEPT !.f.x = @ - 1]
                [] dir = FieldShiftRight -> [s1 EXCEPT !.f.x = @ + 1]
                [] dir = FieldShiftUp -> [s1 EXCEPT !.f.y = @ - 1]
                [] dir = FieldShiftDown -> [s1 EXCEPT !.f.y = @ - 1]
                [] OTHER -> s1
        s3 == DrawBox(s2, border)
        s4 == Update(s3, s3.f.text)
    IN  [s4 EXCEPT !.err = NoReturn]

Shift(st, dir) ==
    LET border == st.f.border
        s1 == DrawBox(st, boxStyleClear)
        s2 == CASE dir = FieldShiftLeft -> [s1 EXCEPT !.f.x = @ - 1]
                [] dir = FieldShiftRight -> [s1 EXCEPT !.f.x = @ + 1]
                [] dir = FieldShiftUp -> [s1 EXCEPT !.f.y = @ - 1]
                [] dir = FieldShiftDown -> [s1 EXCEPT !.f.y = @ + 1]
                [] OTHER -> s1
        s3 == DrawBox(s2, border)
        s4 == Update(s3, s3.f.text)
    IN  [s4 EXCEPT !.err = NoReturn]

\* the zero-valued border of the struct literal is boxStyleClear
NewField(st, y, x, len, text) ==
    LET f0 == [x |-> x, y |-> y, len |-> len, border |-> boxStyleClear,
              text |-> << >>]
        s1 == Update([st EXCEPT !.f = f0], text)
    IN  IF s1.err # Nil THEN [s1 EXCEPT !.f = NoField] ELSE s1

\* ------------------------------------------------------------------ state
VARIABLES isInit, fld, back, front, cursor, last, nops

vars == <<isInit, fld, back, front, cursor, last, nops>>

NoOp == [op |-> "none", arg |-> << >>, err |-> Nil, pre |-> NoField,
         init |-> FALSE]

World == [init |-> isInit, f |-> fld, back |-> back, front |-> front,
          calls |-> << >>, err |-> Nil]

Brief(l) == [op |-> l.op, arg |-> l.arg, err |-> l.err, pre |-> l.pre,
             init |-> l.init]

\* the record of the call just made: its arguments, its result, the field
\* and the IsInit flag before it, the backend calls it made, and the call
\* before it
Record(op, arg, st) ==
    [op |-> op, arg |-> arg, err |-> st.err, pre |-> fld, init |-> isInit,
     calls |-> st.calls, prev |-> Brief(last)]

Commit(op, arg, st) ==
    /\ fld' = st.f
    /\ back' = st.back
    /\ front' = st.front
    /\ last' = Record(op, arg, st)
    /\ nops' = nops + 1
    /\ UNCHANGED <<isInit, cursor>>

Init ==
    /\ isInit = FALSE
    /\ fld = NoField
    /\ back = ClearGrid
    /\ front = ClearGrid
    /\ cursor = <<-1, -1>>
    /\ last = [op |-> "none", arg |-> << >>, err |-> Nil, pre |-> NoField,
               init |-> FALSE, calls |-> << >>, prev |-> NoOp]
    /\ nops = 0

\* Init(): tb.Init() succeeds and gives cleared buffers, or fails
TbInit ==
    /\ nops < MaxOps
    /\ ~isInit
    /\ \E ok \in BOOLEAN :
         /\ isInit' = ok
         /\ back' = IF ok THEN ClearGrid ELSE back
         /\ front' = IF ok THEN ClearGrid ELSE front
         /\ last' = Record("Init", << >>,
                           [err |-> IF ok THEN Nil ELSE "init failed",
                            calls |-> << >>])
    /\ nops' = nops + 1
    /\ UNCHANGED <<fld, cursor>>

\* Close(): tb.SetCursor(0, 0); tb.Close()
TbClose ==
    /\ nops < MaxOps
    /\ isInit
    /\ cursor' = <<0, 0>>
    /\ isInit' = FALSE
    /\ last' = Record("Close", << >>, [err |-> NoReturn, calls |-> << >>])
    /\ nops' = nops + 1
    /\ UNCHANGED <<fld, back, front>>

DoNewField ==
    /\ nops < MaxOps
    /\ \E y \in NewRows, x \in NewCols, len \in Widths, text \in Texts :
         Commit("NewField", <<y, x, len, text>>, NewField(World, y, x, len, text))

DoUpdate ==
    /\ nops < MaxOps
    /\ fld # NoField
    /\ \E s \in Texts : Commit("Update", s, Update(World, s))

DoDrawBox ==
    /\ nops < MaxOps
    /\ fld # NoField
    /\ \E b \in Styles : Commit("DrawBox", b, DrawBox(World, b))

DoLoc ==
    /\ nops < MaxOps
    /\ fld # NoField
    /\ \E y \in Rows, x \in Cols : Commit("Loc", <<y, x>>, Loc(World, y, x))

DoShift ==
    /\ nops < MaxOps
    /\ fld # NoField
    /\ \E d \in Dirs : Commit("Shift", d, Shift(World, d))

Next ==
    \/ TbInit
    \/ TbClose
    \/ DoNewField
    \/ DoUpdate
    \/ DoDrawBox
    \/ DoLoc
    \/ DoShift

Spec == Init /\ [][Next]_vars

\* ------------------------------------------------------- claim vocabulary
FieldOps == {"Update", "DrawBox", "Loc", "Shift"}

RecognizedStyles == {boxStyleClear, BoxStyleNone, BoxStyleASCII, BoxStyleUnicode}

\* the cell writes of a call log, as a set of <<x, y, rune>>
Written(calls) ==
    {<<calls[i].x, calls[i].y, calls[i].r>> :
        i \in {j \in 1..Len(calls) : calls[j].call = "SetCell"}}

\* a log made of cell writes followed by exactly one flush, which is last
WritesThenFlush(calls) ==
    /\ Len(calls) >= 1
    /\ calls[Len(calls)].call = "Flush"
    /\ \A i \in 1..(Len(calls) - 1) : calls[i].call = "SetCell"

\* the cells a field occupies: those its text was written to, and its border
TextCells(f) == {<<f.x + ByteIndex(f.text, k), f.y>> : k \in 1..Len(f.text)}

BorderCells(f) ==
    {<<f.x - 1, f.y + dy>> : dy \in {-1, 0, 1}}
    \cup {<<f.x + f.len + 1, f.y + dy>> : dy \in {-1, 0, 1}}
    \cup {<<f.x + i, f.y + dy>> : i \in 0..f.len, dy \in {-1, 1}}

FieldCells(f) == TextCells(f) \cup BorderCells(f)

\* ------------------------------------------------------------------- C1
\* C1: a field operation (Update, DrawBox, Loc, Shift) made while the
\* backend is not initialized leaves the field's text, position and border
\* as they were and writes no cell; Update and DrawBox, which return an
\* error, return the NotInitialized error.
C1_NotInitializedNoEffect ==
    (last.op \in FieldOps /\ ~last.init) =>
        /\ last.op \in {"Update", "DrawBox"} => last.err = ErrNotInitialized
        /\ fld = last.pre
        /\ last.calls = << >>

\* ------------------------------------------------------------------- C2
\* C2: after Loc on an initialized backend the stored text equals the text
\* stored before the call, and the last thing Loc does is to write that
\* text at the new position and flush.
C2_LocPreservesText ==
    (last.op = "Loc" /\ last.init) =>
        /\ fld.text = last.pre.text
        /\ LET w == UpdateWrites(fld, last.pre.text)
               n == Len(last.calls)
           IN  /\ n >= Len(w) + 2
               /\ last.calls[n] = FlushCall
               /\ SubSeq(last.calls, n - Len(w), n - 1) = w
               /\ last.calls[n - Len(w) - 1] = FlushCall

\* ------------------------------------------------------------------- C3
\* C3: after NewField, Update, DrawBox with a public style, Loc or Shift
\* the stored border style of the field is not the internal Clear style.
C3_BorderNeverClear ==
    ( /\ fld # NoField
      /\ last.op \in {"NewField", "Update", "DrawBox", "Loc", "Shift"}
      /\ ~(last.op = "DrawBox" /\ last.arg = boxStyleClear) )
    => fld.border # boxStyleClear

\* ------------------------------------------------------------------- C4
\* C4: a successful Update(newText) writes rune k of newText (from 0) to
\* cell (column + k, row), for every k below the number of runes, writes no
\* other cell, and neither pads nor truncates.
C4_UpdateOneRunePerCell ==
    (last.op = "Update" /\ last.err = Nil) =>
        [i \in 1..(Len(last.calls) - 1) |-> last.calls[i]]
          = [k \in 1..Len(last.arg) |->
               SetCellCall(Column(last.pre) + (k - 1), Row(last.pre), last.arg[k])]

\* ------------------------------------------------------------------- C5
\* C5: after Loc on an initialized backend to a location whose cells are
\* disjoint from the old ones, every cell the field occupied at the old
\* location (text and border) holds a blank.
C5_LocNoResidue ==
    ( /\ last.op = "Loc"
      /\ last.init
      /\ FieldCells(last.pre) \cap FieldCells([fld EXCEPT !.text = last.pre.text]) = {}
      /\ FieldCells(last.pre) \cap FieldCells(fld) = {} )
    => \A c \in FieldCells(last.pre) \cap Cells : back[c] = Blank

\* ------------------------------------------------------------------- C6
C6_UpdateStep ==
    (last'.op = "Update") =>
        /\ last'.err = (IF isInit THEN Nil ELSE ErrNotInitialized)
        /\ last'.err = Nil =>
             /\ fld'.text = last'.arg
             /\ WritesThenFlush(last'.calls)
             /\ front' = back'
        /\ last'.err = ErrNotInitialized =>
             /\ fld' = fld
             /\ last'.calls = << >>
             /\ back' = back
             /\ front' = front
        /\ (last.op = "Update" /\ last.err = Nil /\ last'.err = Nil
              /\ last.arg = last'.arg) =>
             /\ fld' = fld
             /\ back' = back
             /\ front' = front

\* C6: Update(newText) either succeeds, storing exactly newText and
\* flushing after the cell writes, or fails because the backend is not
\* initialized, leaving the text unchanged and writing no cell; a second
\* Update(s) right after a successful Update(s) changes neither the stored
\* text nor any cell.
C6_UpdateAllOrNothing == [][C6_UpdateStep]_vars

C6_Witness ==
    /\ last.op = "Update" /\ last.err = Nil /\ Len(last.arg) = 2
    /\ last.prev.op = "Update" /\ last.prev.err = Nil
    /\ last.prev.arg = last.arg
    /\ last.pre.len < 2

\* ------------------------------------------------------------------- C7
\* C7: after Loc(r2, c2) on an initialized backend Row() is r2, Column()
\* is c2, the border style is the one stored before the call and the width
\* is unchanged.
C7_LocMovesKeepsBorder ==
    (last.op = "Loc" /\ last.init) =>
        /\ Row(fld) = last.arg[1]
        /\ Column(fld) = last.arg[2]
        /\ fld.border = last.pre.border
        /\ fld.len = last.pre.len

C7_Witness ==
    /\ last.op = "Loc" /\ last.init
    /\ last.pre.border = BoxStyleASCII
    /\ last.arg[1] # last.pre.y
    /\ last.arg[2] # last.pre.x

\* ------------------------------------------------------------------- C8
\* C8: on an initialized backend DrawBox with a style outside the four
\* recognized ones returns the UnknownBorderStyle error, writes no cell and
\* leaves border, text and position unchanged; with a recognized style it
\* succeeds and stores that style.
C8_DrawBoxStyleCheck ==
    (last.op = "DrawBox" /\ last.init) =>
        IF last.arg \notin RecognizedStyles
        THEN /\ last.err = ErrUnknownBoxStyle
             /\ last.calls = << >>
             /\ fld = last.pre
        ELSE /\ last.err = Nil
             /\ fld.border = last.arg

C8_Witness ==
    /\ last.op = "DrawBox" /\ last.init
    /\ last.arg \notin RecognizedStyles
    /\ last.pre.border = BoxStyleUnicode

\* ------------------------------------------------------------------- C9
ShiftPair(first, second) ==
    /\ last.op = "Shift" /\ last.init /\ last.arg = second
    /\ last.prev.op = "Shift" /\ last.prev.init /\ last.prev.arg = first

BackWhereItWas ==
    /\ fld.x = last.prev.pre.x
    /\ fld.y = last.prev.pre.y
    /\ fld.border = last.prev.pre.border
    /\ fld.text = last.prev.pre.text

C10_DrawBoxGeometry ==
    (last.op = "DrawBox" /\ last.err = Nil) =>
        LET col == Column(last.pre)
            row == Row(last.pre)
            w == last.pre.len
            g == boxRunesMap[last.arg]
        IN  /\ Written(last.calls) =
                 {<<col - 1, row - 1, g[1]>>, <<col + w + 1, row - 1, g[2]>>,
                  <<col - 1, row + 1, g[3]>>, <<col + w + 1, row + 1, g[4]>>,
                  <<col - 1, row, g[6]>>, <<col + w + 1, row, g[6]>>}
                 \cup {<<col + i, row - 1, g[5]>> : i \in 0..w}
                 \cup {<<col + i, row + 1, g[5]>> : i \in 0..w}
            /\ \A t \in Written(last.calls) :
                 ~(t[2] = row /\ t[1] >= col /\ t[1] <= col + w)
            /\ WritesThenFlush(last.calls)
            /\ front = back

C10_Witness ==
    /\ last.op = "DrawBox" /\ last.err = Nil
    /\ last.arg = BoxStyleASCII
    /\ last.pre.len = 1
    /\ back[<<last.pre.x + 1, last.pre.y - 1>>] = 45

====
